---- MODULE Spec2Model ----
(***************************************************************************)
(* ROI API (server.js): wallets, FX table, exchange, ROI settlement and    *)
(* the investment engine with its auto-compound sweep.                     *)
(*                                                                         *)
(* Units.  Money is held in cents (every stored balance and principal is   *)
(* passed through round2, so it is a whole number of cents).  FX rates are *)
(* held in cents of USD per unit of the asset.  The amount of a wallet     *)
(* deposit is held in millionths of a unit and a price of the FX feed in   *)
(* thousandths of a USD, so that round2 acts on them.  Time is held in     *)
(* whole seconds since the process started.  round2 is computed on the     *)
(* exact                                                                   *)
(* value; where the exact value lies halfway between two cents the binary  *)
(* floating-point error of the JavaScript expression decides the side, and *)
(* the model admits both neighbours.                                       *)
(***************************************************************************)
EXTENDS Integers, Sequences, FiniteSets, TLC

\* ------------------------------------------------------------------------
\* Program constants
\* ------------------------------------------------------------------------
DAY_SEC == 86400
\* DAILY_RATE = 0.015 = DAILY_RATE_NUM / DAILY_RATE_DEN
DAILY_RATE_NUM == 15
DAILY_RATE_DEN == 1000
\* cents per unit: round2 keeps two decimals
CENT == 100
\* `!inv.last_tick_at`: the falsy timestamp
NullTs == -1
\* The amount of a wallet deposit is held in millionths of a unit, the
\* precision the ledger is to keep for volatile assets: SubCent to the cent
SubCent == 10000

\* ------------------------------------------------------------------------
\* Bounds of the model
\* ------------------------------------------------------------------------
MaxDays == 3
MaxPrincipal == 200000
MaxBalance == 20000
MaxRequests == 2
MaxWalletRequests == 3
MaxFoldPrincipal == 200

\* ------------------------------------------------------------------------
\* Input domains
\* ------------------------------------------------------------------------
UserIds == {1, 2}
Assets == {"USD", "USDT", "TRX", "BTC", "ETH"}
PairOf(asset) ==
  CASE asset = "USD" -> "USD-USD"
    [] asset = "USDT" -> "USDT-USD"
    [] asset = "TRX" -> "TRX-USD"
    [] asset = "BTC" -> "BTC-USD"
    [] OTHER -> "ETH-USD"
TickSteps == {DAY_SEC \div 2, DAY_SEC}
InvestAssets == {"USDT"}
InvestAmounts == {100000, -100000}
WalletAssets == {"USDT", "TRX"}
WalletAmounts == {10000, -10000, 10004}
\* deposits in millionths: 1.00, 0.01, 0.005 and 0.004 units, either sign
LedgerAmounts == {1000000, -1000000, 10000, 5000, -5000, 4000, -4000}
ConvertPairs == {<<"USDT", "BTC">>, <<"USDT", "ETH">>, <<"USDT", "TRX">>,
                 <<"TRX", "USDT">>}
ConvertFees == {0, 1}
SetRatePairs == {"BTC-USD", "USDT-USD"}
SetRateValues == {6400000, 0}
SettlePlans == {1}
SettleCurrencies == {"USDT", "TRX", "ETH"}
SettleAmounts == {10000, -10000}

VARIABLES now, users, wallets, fx, payouts, investments, req, res, served,
          foldedAt, disk, storeUp, openedAt, balanceBefore

vars == <<now, users, wallets, fx, payouts, investments, req, res, served,
          foldedAt, disk, storeUp, openedAt, balanceBefore>>

\* ------------------------------------------------------------------------
\* Arithmetic
\* ------------------------------------------------------------------------
Abs(x) == IF x < 0 THEN -x ELSE x
Sgn(x) == IF x < 0 THEN -1 ELSE IF x > 0 THEN 1 ELSE 0
Max(a, b) == IF a >= b THEN a ELSE b

\* <<q, r>> with a * b = q * c + r and 0 <= r < c, for a >= 0, 0 <= b < c,
\* computed bit by bit so that no intermediate exceeds 2 * c.
RECURSIVE MulDivQR(_, _, _)
MulDivQR(a, b, c) ==
  IF a = 0 THEN <<0, 0>>
  ELSE LET h == MulDivQR(a \div 2, b, c)
           d == 2 * h[2]
           e == (d % c) + (IF a % 2 = 1 THEN b ELSE 0)
       IN <<2 * h[1] + (d \div c) + (e \div c), e % c>>

\* Math.round(a * b / c) for integers a, b, c with c # 0: the integers
\* nearest to the exact quotient (two of them at an exact half).
JSRoundDiv(a, b, c) ==
  LET m == Abs(c)
      qr == MulDivQR(Abs(a), Abs(b) % m, m)
      q == Abs(a) * (Abs(b) \div m) + qr[1]
      r == qr[2]
      s == IF Sgn(a) * Sgn(b) * Sgn(c) >= 0 THEN 1 ELSE -1
  IN IF 2 * r = m THEN {s * q, s * (q + 1)}
     ELSE IF 2 * r > m THEN {s * (q + 1)}
     ELSE {s * q}

\* One day of compounding of the exact value v = int + 0.frac (frac holds
\* base-DAILY_RATE_DEN digits, most significant first): v * (1 + DAILY_RATE).
RECURSIVE MulDigits(_, _)
MulDigits(ds, k) ==
  IF ds = <<>> THEN <<0, <<>>>>
  ELSE LET rest == MulDigits(Tail(ds), k)
           t == Head(ds) * k + rest[1]
       IN <<t \div DAILY_RATE_DEN, <<t % DAILY_RATE_DEN>> \o rest[2]>>

GrowOneDay(v) ==
  LET m == MulDigits(v.frac, DAILY_RATE_DEN + DAILY_RATE_NUM)
      t == v.int * (DAILY_RATE_DEN + DAILY_RATE_NUM) + m[1]
  IN [int |-> t \div DAILY_RATE_DEN, frac |-> <<t % DAILY_RATE_DEN>> \o m[2]]

\* Mutant: simple interest, p0 * (1 + DAILY_RATE * days)
PowGrow_simple(p0, days) ==
  [int |-> p0 + (p0 * DAILY_RATE_NUM * days) \div DAILY_RATE_DEN,
   frac |-> <<(p0 * DAILY_RATE_NUM * days) % DAILY_RATE_DEN>>]

\* p0 * Math.pow(1 + DAILY_RATE, days), exactly, for p0 >= 0
RECURSIVE PowGrow(_, _)
PowGrow(p0, days) ==
  IF days = 0 THEN [int |-> p0, frac |-> <<>>]
  ELSE GrowOneDay(PowGrow(p0, days - 1))

\* Math.round of an exact non-negative value: the nearest integers
RoundExact(v) ==
  LET half == /\ v.frac # <<>>
              /\ 2 * v.frac[1] = DAILY_RATE_DEN
              /\ \A i \in 2..Len(v.frac) : v.frac[i] = 0
  IN IF half THEN {v.int, v.int + 1}
     ELSE IF v.frac # <<>> /\ 2 * v.frac[1] >= DAILY_RATE_DEN THEN {v.int + 1}
     ELSE {v.int}

\* ------------------------------------------------------------------------
\* Helpers of server.js
\* ------------------------------------------------------------------------
\* db.fx[`${asset}-USD`] || 0
Rate(asset) == IF PairOf(asset) \in DOMAIN fx THEN fx[PairOf(asset)] ELSE 0

\* a fresh wallet: { USD:0, USDT:0, TRX:0, BTC:0 }; a missing key reads as 0
NewWallet == [a \in Assets |-> 0]
NewInvest == [principal_usd |-> 0, auto_compound |-> FALSE, last_tick_at |-> now]

\* ensureWallet / ensureInvest, as the table after the call
ensureWallet(w, userId) ==
  IF userId \in DOMAIN w THEN w
  ELSE [u \in DOMAIN w \cup {userId} |-> IF u = userId THEN NewWallet ELSE w[u]]

ensureInvest(inv, userId) ==
  IF userId \in DOMAIN inv THEN inv
  ELSE [u \in DOMAIN inv \cup {userId} |-> IF u = userId THEN NewInvest ELSE inv[u]]

\* creditAsset, as the wallet table after the call (amount in cents)
creditAsset(w, userId, asset, amount) ==
  LET w1 == ensureWallet(w, userId)
  IN [w1 EXCEPT ![userId][asset] = w1[userId][asset] + amount]

\* round2(toUSD(asset, amount)): the possible values, in cents of USD
toUSD(asset, amount) ==
  IF asset \in {"USD", "USDT"} THEN {amount}
  ELSE JSRoundDiv(amount, Rate(asset), CENT)

\* Mutant: the window start is moved to the time of the sweep
advanceISO_toNow(iso, seconds) == now

\* Mutant: the window start is advanced to the end of the day that has begun
advanceISO_nextDay(iso, seconds) == iso + seconds + DAY_SEC

\* advanceISO(iso, seconds)
advanceISO(iso, seconds) == iso + seconds

\* Mutant: elapsed time measured from the start of the process
ElapsedSec_sinceStart(inv) == now

\* Math.max(0, (now - last) / 1000) with last = last_tick_at || now
ElapsedSec(inv) ==
  LET last == IF inv.last_tick_at = NullTs THEN now ELSE inv.last_tick_at
  IN Max(0, now - last)

\* Mutant: interest for whole elapsed days only
Accrued_wholeDays(inv) ==
  JSRoundDiv(inv.principal_usd * DAILY_RATE_NUM,
             (ElapsedSec(inv) \div DAY_SEC) * DAY_SEC,
             DAY_SEC * DAILY_RATE_DEN)

\* round2(principal_usd * DAILY_RATE * (elapsedSec / DAY_SEC)): the possible
\* values, in cents
Accrued(inv) ==
  JSRoundDiv(inv.principal_usd * DAILY_RATE_NUM, ElapsedSec(inv),
             DAY_SEC * DAILY_RATE_DEN)

\* ------------------------------------------------------------------------
\* The event last handled (a request, a timer callback or time passing) and
\* the response sent for it; foldedAt is the time of the last sweep that
\* folded a record if no request was served since, else NullTs
\* ------------------------------------------------------------------------
Req(op, userId, asset, toAsset, amount, feePct, flag) ==
  [op |-> op, userId |-> userId, asset |-> asset, toAsset |-> toAsset,
   amount |-> amount, feePct |-> feePct, flag |-> flag]
Res(status, error, value) == [status |-> status, error |-> error, value |-> value]

Handled(r, s) == req' = r /\ res' = s

\* ------------------------------------------------------------------------
\* db.json: disk is what the file holds, storeUp whether writeFileSync
\* succeeds.  A write that fails leaves the old file or a torn one, which
\* JSON.parse rejects; the handler's exception is answered with status 500
\* and the changes made to db in memory stay
\* ------------------------------------------------------------------------
Persisted ==
  [readable |-> TRUE,
   db |-> [fx |-> fx, wallets |-> wallets, payouts |-> payouts, users |-> users,
           investments |-> investments]]
Torn == [readable |-> FALSE, db |-> <<>>]

\* saveDB(db), once the handler has changed db
saveDB == disk' \in (IF storeUp THEN {Persisted'} ELSE {disk, Torn})

\* the handler changes db, calls saveDB and then answers s
Saved(r, s) ==
  /\ saveDB
  /\ Handled(r, IF storeUp THEN s ELSE Res(500, "Internal Server Error", 0))

\* the handler answers s without a call of saveDB
Unsaved(r, s) == Handled(r, s) /\ disk' = disk

\* A request is served: the number of requests handled so far is bounded
Serve ==
  served < MaxRequests /\ served' = served + 1 /\ foldedAt' = NullTs
ServeWallet ==
  served < MaxWalletRequests /\ served' = served + 1 /\ foldedAt' = NullTs

\* ------------------------------------------------------------------------
\* Initial state: a fresh db.json, migrate(), the start-up sweep (a no-op)
\* ------------------------------------------------------------------------
Init ==
  /\ now = 0
  /\ users = [u \in {1} |-> [roi_convert_to_usd |-> TRUE]]
  /\ wallets = [u \in {1} |-> NewWallet]
  /\ fx = [p \in {"USD-USD", "USDT-USD", "TRX-USD", "BTC-USD"} |->
             CASE p = "TRX-USD" -> 10
               [] p = "BTC-USD" -> 6800000
               [] OTHER -> CENT]
  /\ payouts = <<>>
  /\ investments = [u \in {1} |->
       [principal_usd |-> 0, auto_compound |-> FALSE, last_tick_at |-> 0]]
  /\ req = Req("start", 0, "", "", 0, 0, FALSE)
  /\ res = Res(200, "", 0)
  /\ served = 0
  /\ foldedAt = NullTs
  /\ disk = Persisted
  /\ storeUp = TRUE
  /\ openedAt = [u \in UserIds |-> [at |-> NullTs, alone |-> FALSE]]
  /\ balanceBefore = 0

\* ------------------------------------------------------------------------
\* Time passing between events
\* ------------------------------------------------------------------------
Tick(dt) ==
  /\ now + dt <= MaxDays * DAY_SEC
  /\ now' = now + dt
  /\ Handled(Req("tick", 0, "", "", dt, 0, FALSE), Res(200, "", 0))
  /\ UNCHANGED <<users, wallets, fx, payouts, investments, served, foldedAt,
                 disk, storeUp>>

\* ------------------------------------------------------------------------
\* Investment engine
\* ------------------------------------------------------------------------
\* POST /invest/deposit
InvestDeposit(userId, asset, amount) ==
  LET inv1 == ensureInvest(investments, userId)
      t1 == IF inv1[userId].last_tick_at = NullTs THEN now
            ELSE inv1[userId].last_tick_at
  IN \E addUsd \in toUSD(asset, amount) :
       LET p1 == inv1[userId].principal_usd + addUsd
       IN /\ Serve
          /\ Abs(p1) <= MaxPrincipal
          /\ investments' = [inv1 EXCEPT ![userId].principal_usd = p1,
                                         ![userId].last_tick_at = t1]
          /\ UNCHANGED <<now, users, wallets, fx, payouts, storeUp>>
          /\ Saved(Req("invest/deposit", userId, asset, "", amount, 0, FALSE),
                   Res(200, "", p1))

\* POST /invest/reinvest
Reinvest(userId) ==
  LET inv1 == ensureInvest(investments, userId)
      inv == inv1[userId]
  IN \E accrued \in Accrued(inv) :
       LET p1 == inv.principal_usd + accrued
       IN /\ Serve
          /\ investments' = [inv1 EXCEPT ![userId].principal_usd = p1,
                                         ![userId].last_tick_at = now]
          /\ UNCHANGED <<now, users, wallets, fx, payouts, storeUp>>
          /\ Saved(Req("invest/reinvest", userId, "", "", 0, 0, FALSE),
                   Res(200, "", p1))

\* Mutant: the claim pays and leaves the window open
Claim_keepsWindow(userId) ==
  LET inv1 == ensureInvest(investments, userId)
      inv == inv1[userId]
  IN \E accrued \in Accrued(inv) :
       /\ Serve
       /\ wallets' = creditAsset(wallets, userId, "USD", accrued)
       /\ investments' = inv1
       /\ UNCHANGED <<now, users, fx, payouts, storeUp>>
       /\ Saved(Req("invest/claim", userId, "", "", 0, 0, FALSE),
                Res(200, "", accrued))

\* POST /invest/claim
Claim(userId) ==
  LET inv1 == ensureInvest(investments, userId)
      inv == inv1[userId]
  IN \E accrued \in Accrued(inv) :
       /\ Serve
       /\ wallets' = creditAsset(wallets, userId, "USD", accrued)
       /\ investments' = [inv1 EXCEPT ![userId].last_tick_at = now]
       /\ UNCHANGED <<now, users, fx, payouts, storeUp>>
       /\ Saved(Req("invest/claim", userId, "", "", 0, 0, FALSE),
                Res(200, "", accrued))

\* Mutant: the toggle also restarts the accrual window
Config_restartsWindow(userId, auto_compound) ==
  LET inv1 == ensureInvest(investments, userId)
  IN /\ Serve
     /\ investments' = [inv1 EXCEPT ![userId].auto_compound = auto_compound,
                                    ![userId].last_tick_at = now]
     /\ UNCHANGED <<now, users, wallets, fx, payouts, storeUp>>
     /\ Saved(Req("invest/config", userId, "", "", 0, 0, auto_compound),
              Res(200, "", 0))

\* POST /invest/config
Config(userId, auto_compound) ==
  LET inv1 == ensureInvest(investments, userId)
  IN /\ Serve
     /\ investments' = [inv1 EXCEPT ![userId].auto_compound = auto_compound]
     /\ UNCHANGED <<now, users, wallets, fx, payouts, storeUp>>
     /\ Saved(Req("invest/config", userId, "", "", 0, 0, auto_compound),
              Res(200, "", 0))

\* Whether the sweep's loop body folds this record
SweepFolds(inv) ==
  LET last == IF inv.last_tick_at = NullTs THEN now ELSE inv.last_tick_at
  IN /\ inv.auto_compound
     /\ now - last >= DAY_SEC
     /\ inv.principal_usd > 0

\* Mutant: the fold leaves last_tick_at where it was
SweepOne_noAdvance(inv) ==
  LET last == IF inv.last_tick_at = NullTs THEN now ELSE inv.last_tick_at
      days == (now - last) \div DAY_SEC
  IN IF ~SweepFolds(inv) THEN {inv}
     ELSE {[inv EXCEPT !.principal_usd = p1] :
             p1 \in RoundExact(PowGrow(inv.principal_usd, days))}

\* The body of the sweep's loop for one record: the records it can leave
SweepOne(inv) ==
  LET last == IF inv.last_tick_at = NullTs THEN now ELSE inv.last_tick_at
      elapsedSec == now - last
      days == elapsedSec \div DAY_SEC
  IN IF ~SweepFolds(inv) THEN {inv}
     ELSE {[inv EXCEPT !.principal_usd = p1,
                       !.last_tick_at = advanceISO(inv.last_tick_at,
                                                   days * DAY_SEC)] :
             p1 \in RoundExact(PowGrow(inv.principal_usd, days))}

\* sweepAutoCompound: one pass over db.users, then `if (changed) saveDB(db)`.
\* The callback runs while the store accepts the write it makes: an
\* exception thrown out of a timer callback ends the process.
sweepAutoCompound ==
  LET ensured == [u \in DOMAIN investments \cup DOMAIN users |->
                    IF u \in DOMAIN investments THEN investments[u] ELSE NewInvest]
      swept(u) == IF u \in DOMAIN users THEN SweepOne(ensured[u])
                  ELSE {ensured[u]}
      changed == \E u \in DOMAIN users : SweepFolds(ensured[u])
  IN /\ storeUp \/ ~changed
     /\ investments' \in
          {f \in [DOMAIN ensured -> UNION {swept(u) : u \in DOMAIN ensured}] :
             \A u \in DOMAIN ensured : f[u] \in swept(u)}
     /\ foldedAt' = IF changed THEN now ELSE foldedAt
     /\ UNCHANGED <<now, users, wallets, fx, payouts, served, storeUp>>
     /\ IF changed
        THEN Saved(Req("sweep", 0, "", "", now, 0, changed), Res(200, "", 0))
        ELSE Unsaved(Req("sweep", 0, "", "", now, 0, changed), Res(200, "", 0))

\* GET /invest/status/:userId; a nullable field of the response holds <<v>>
Status(userId) ==
  LET inv1 == ensureInvest(investments, userId)
      inv == inv1[userId]
      elapsedSec == ElapsedSec(inv)
      secondsToNext == Max(0, DAY_SEC - (elapsedSec % DAY_SEC))
  IN \E accrued \in Accrued(inv) :
       /\ investments' = inv1
       /\ foldedAt' = NullTs
       /\ UNCHANGED <<now, users, wallets, fx, payouts, served, storeUp>>
       /\ Unsaved(Req("invest/status", userId, "", "", 0, 0, FALSE),
                  Res(200, "",
                      [principal_usd |-> inv.principal_usd,
                       accrued_usd |-> accrued,
                       last_tick_at |-> inv.last_tick_at,
                       seconds_to_next |-> <<secondsToNext>>,
                       auto_compound |-> inv.auto_compound]))

\* openedAt is a history of the deposits and balanceBefore the balance a
\* wallet deposit found, each kept where a property reads it
NextInvest ==
  \/ \E dt \in TickSteps : Tick(dt) /\ UNCHANGED <<openedAt, balanceBefore>>
  \/ \E u \in UserIds, a \in InvestAssets, amt \in InvestAmounts :
       InvestDeposit(u, a, amt) /\ UNCHANGED <<openedAt, balanceBefore>>
  \/ \E u \in UserIds : Reinvest(u) /\ UNCHANGED <<openedAt, balanceBefore>>
  \/ \E u \in UserIds : Claim(u) /\ UNCHANGED <<openedAt, balanceBefore>>
  \/ \E u \in UserIds, b \in BOOLEAN : Config(u, b) /\ UNCHANGED <<openedAt, balanceBefore>>
  \/ sweepAutoCompound /\ UNCHANGED <<openedAt, balanceBefore>>

SpecInvest == Init /\ [][NextInvest]_vars

\* The history of deposits: openedAt[u].alone holds while the record of u has
\* received one deposit, at time openedAt[u].at, and since then no other
\* deposit, no reinvest, no claim and no fold by the sweep
FirstDeposit(u) ==
  openedAt' = [openedAt EXCEPT ![u] =
                 IF openedAt[u].at = NullTs THEN [at |-> now, alone |-> TRUE]
                 ELSE [at |-> openedAt[u].at, alone |-> FALSE]]
Touched(us) ==
  openedAt' = [u \in UserIds |->
                 IF u \in us THEN [at |-> openedAt[u].at, alone |-> FALSE]
                 ELSE openedAt[u]]
Folded ==
  {u \in DOMAIN users \cap DOMAIN investments : SweepFolds(investments[u])}

NextStatus ==
  \/ \E dt \in TickSteps : Tick(dt) /\ UNCHANGED <<openedAt, balanceBefore>>
  \/ \E u \in UserIds, a \in InvestAssets, amt \in InvestAmounts :
       InvestDeposit(u, a, amt) /\ FirstDeposit(u) /\ UNCHANGED balanceBefore
  \/ \E u \in UserIds : Reinvest(u) /\ Touched({u}) /\ UNCHANGED balanceBefore
  \/ \E u \in UserIds : Claim(u) /\ Touched({u}) /\ UNCHANGED balanceBefore
  \/ \E u \in UserIds, b \in BOOLEAN : Config(u, b) /\ UNCHANGED <<openedAt, balanceBefore>>
  \/ sweepAutoCompound /\ Touched(Folded) /\ UNCHANGED balanceBefore
  \/ \E u \in UserIds : Status(u) /\ UNCHANGED <<openedAt, balanceBefore>>

SpecStatus == Init /\ [][NextStatus]_vars

\* ------------------------------------------------------------------------
\* Batch fold and daily folds side by side.  db.json holds two registered
\* users whose records have the same principal and the same window start;
\* the record of user 1 has auto-compound on and is folded by the sweep day
\* by day, that of user 2 gets auto-compound switched on later and is then
\* folded in one step.  The sweep runs every 60 seconds, so no day boundary
\* of a record it folds passes without a sweep.
\* ------------------------------------------------------------------------
\* principals in cents: those whose first fold is not an exact half cent,
\* and 1000.00
FoldPrincipals ==
  {p \in 1..MaxFoldPrincipal :
     2 * ((p * (DAILY_RATE_DEN + DAILY_RATE_NUM)) % DAILY_RATE_DEN)
       # DAILY_RATE_DEN}
    \cup {MaxPrincipal \div 2}
FoldLate == {2}

InitFold ==
  /\ now = 0
  /\ users = [u \in UserIds |-> [roi_convert_to_usd |-> TRUE]]
  /\ wallets = [u \in UserIds |-> NewWallet]
  /\ fx = [p \in {"USD-USD", "USDT-USD", "TRX-USD", "BTC-USD"} |->
             CASE p = "TRX-USD" -> 10
               [] p = "BTC-USD" -> 6800000
               [] OTHER -> CENT]
  /\ payouts = <<>>
  /\ \E p0 \in FoldPrincipals :
       investments = [u \in UserIds |->
         [principal_usd |-> p0, auto_compound |-> u \notin FoldLate,
          last_tick_at |-> 0]]
  /\ req = Req("start", 0, "", "", 0, 0, FALSE)
  /\ res = Res(200, "", 0)
  /\ served = 0
  /\ foldedAt = NullTs
  /\ disk = Persisted
  /\ storeUp = TRUE
  /\ openedAt = [u \in UserIds |-> [at |-> NullTs, alone |-> FALSE]]
  /\ balanceBefore = 0

\* a record the next sweep folds
SweepDue ==
  \E u \in DOMAIN users \cap DOMAIN investments : SweepFolds(investments[u])

NextFold ==
  \/ \E dt \in TickSteps :
       ~SweepDue /\ Tick(dt) /\ UNCHANGED <<openedAt, balanceBefore>>
  \/ \E u \in FoldLate : Config(u, TRUE) /\ UNCHANGED <<openedAt, balanceBefore>>
  \/ sweepAutoCompound /\ UNCHANGED <<openedAt, balanceBefore>>

SpecFold == InitFold /\ [][NextFold]_vars

\* ------------------------------------------------------------------------
\* FX table
\* ------------------------------------------------------------------------
\* POST /fx
SetRate(pair, rate) ==
  /\ ServeWallet
  /\ fx' = [p \in DOMAIN fx \cup {pair} |-> IF p = pair THEN rate ELSE fx[p]]
  /\ UNCHANGED <<now, users, wallets, payouts, investments, storeUp>>
  /\ Saved(Req("fx", 0, pair, "", rate, 0, FALSE), Res(200, "", rate))

\* ------------------------------------------------------------------------
\* Wallet: deposit / withdraw (withdraw = negative deposit)
\* ------------------------------------------------------------------------
\* round2(cur + amount) for a balance in whole cents and an amount in
\* millionths: the possible values, in cents
round2Sum(cur, amount) == {cur + d : d \in JSRoundDiv(amount, 1, SubCent)}

\* POST /deposit (amount in millionths)
Deposit(userId, asset, amount) ==
  LET w1 == ensureWallet(wallets, userId)
      cur == w1[userId][asset]
  IN \E next \in round2Sum(cur, amount) :
       /\ ServeWallet
       /\ next <= MaxBalance
       /\ UNCHANGED <<now, users, fx, payouts, investments, storeUp>>
       /\ IF next < 0
          THEN /\ wallets' = w1
               /\ Unsaved(Req("deposit", userId, asset, "", amount, 0, FALSE),
                          Res(400, "Insufficient balance", 0))
          ELSE /\ wallets' = [w1 EXCEPT ![userId][asset] = next]
               /\ Saved(Req("deposit", userId, asset, "", amount, 0, FALSE),
                        Res(200, "", next))

\* ------------------------------------------------------------------------
\* Exchange (with fee %)
\* ------------------------------------------------------------------------
\* the rate toUSDLocal / fromUSDLocal use: 1 for USD and USDT, else fx || 0
LocalRate(asset) == IF asset \in {"USD", "USDT"} THEN CENT ELSE Rate(asset)

\* Mutant: the credited amount is rounded up (Math.ceil for Math.round)
OutAmt_ceil(fromAsset, toAsset, amount, feePct) ==
  LET a == amount * (100 - feePct)
      c == 100 * LocalRate(toAsset)
  IN IF LocalRate(toAsset) = 0 THEN {0}
     ELSE IF a <= 0 \/ LocalRate(fromAsset) <= 0
       THEN JSRoundDiv(a, LocalRate(fromAsset), c)
       ELSE LET qr == MulDivQR(a, LocalRate(fromAsset) % c, c)
            IN {a * (LocalRate(fromAsset) \div c) + qr[1]
                  + (IF qr[2] > 0 THEN 1 ELSE 0)}

\* outAmt = round2(fromUSDLocal(toAsset, netUsd)): the possible values, in
\* cents of toAsset, with
\* netUsd = toUSDLocal(fromAsset, amount) * (1 - feePct / 100)
OutAmt(fromAsset, toAsset, amount, feePct) ==
  IF LocalRate(toAsset) = 0 THEN {0}
  ELSE JSRoundDiv(amount * (100 - feePct), LocalRate(fromAsset),
                  100 * LocalRate(toAsset))

\* Mutant: the balance check comes after the credit of the target
Convert_creditFirst(userId, fromAsset, toAsset, amount, feePct) ==
  LET w1 == ensureWallet(wallets, userId)
      r == Req("exchange/convert", userId, fromAsset, toAsset, amount,
               feePct, FALSE)
  IN /\ ServeWallet
     /\ UNCHANGED <<now, users, fx, payouts, investments, storeUp>>
     /\ \E outAmt \in OutAmt(fromAsset, toAsset, amount, feePct) :
          LET w2 == [w1 EXCEPT ![userId][toAsset] = w1[userId][toAsset] + outAmt]
              w3 == [w2 EXCEPT ![userId][fromAsset] =
                                  w2[userId][fromAsset] - amount]
          IN IF w1[userId][fromAsset] < amount
             THEN /\ wallets' = w2
                  /\ Unsaved(r, Res(400, "Insufficient " \o fromAsset
                                           \o " balance", 0))
             ELSE /\ wallets' = w3
                  /\ Saved(r, Res(200, "", outAmt))

\* POST /exchange/convert
Convert(userId, fromAsset, toAsset, amount, feePct) ==
  LET w1 == ensureWallet(wallets, userId)
      r == Req("exchange/convert", userId, fromAsset, toAsset, amount,
               feePct, FALSE)
  IN /\ ServeWallet
     /\ UNCHANGED <<now, users, fx, payouts, investments, storeUp>>
     /\ IF w1[userId][fromAsset] < amount
        THEN /\ wallets' = w1
             /\ Unsaved(r, Res(400, "Insufficient " \o fromAsset \o " balance", 0))
        ELSE \E outAmt \in OutAmt(fromAsset, toAsset, amount, feePct) :
               LET w2 == [w1 EXCEPT ![userId][fromAsset] =
                                       w1[userId][fromAsset] - amount]
                   w3 == [w2 EXCEPT ![userId][toAsset] =
                                       w2[userId][toAsset] + outAmt]
               IN /\ wallets' = w3
                  /\ Saved(r, Res(200, "", outAmt))

\* amounts asked of convert: the wallet amounts and, after a conversion, the
\* amount it has just credited (the way back of a round trip)
ConvertAmounts ==
  WalletAmounts \cup
    (IF req.op = "exchange/convert" /\ res.status = 200 THEN {res.value} ELSE {})

NextExchange ==
  \/ \E p \in SetRatePairs, r \in SetRateValues :
       SetRate(p, r) /\ UNCHANGED <<openedAt, balanceBefore>>
  \/ \E u \in UserIds, a \in WalletAssets, amt \in WalletAmounts :
       Deposit(u, a, amt * SubCent) /\ UNCHANGED <<openedAt, balanceBefore>>
  \/ \E u \in UserIds, p \in ConvertPairs, amt \in ConvertAmounts,
        fee \in ConvertFees :
       Convert(u, p[1], p[2], amt, fee) /\ UNCHANGED <<openedAt, balanceBefore>>

SpecExchange == Init /\ [][NextExchange]_vars

\* ------------------------------------------------------------------------
\* Settle ROI and the ROI conversion setting
\* ------------------------------------------------------------------------
\* Mutant: the payout record is not kept
createPayout_dropped(ps, p) == ps

\* createPayout(p), as the payout list after the push (its saveDB is the
\* handler's Saved); created_at is the time of the call
createPayout(ps, p) ==
  Append(ps, [user_id |-> p.user_id, plan_id |-> p.plan_id,
              original_currency |-> p.original_currency,
              original_amount |-> p.original_amount,
              fx_rate_to_usd |-> p.fx_rate_to_usd, usd_amount |-> p.usd_amount,
              converted |-> p.converted, created_at |-> now])

\* Mutant: the USD value is taken from toUSD, which pegs USD and USDT at 1
SettleUsd_pegged(currency, amount) == toUSD(currency, amount)

\* usdAmount = round2(Number(amount) * rate) with rate = db.fx[pair] || 0:
\* the possible values, in cents of USD
SettleUsd(currency, amount) == JSRoundDiv(amount, Rate(currency), CENT)

\* POST /settle; a null field of a payout is <<>>, a value v is <<v>>
Settle(userId, planId, amount, currency) ==
  LET r == Req("settle", userId, currency, "", amount, 0,
               userId \in DOMAIN users /\ users[userId].roi_convert_to_usd)
  IN /\ ServeWallet
     /\ UNCHANGED <<now, users, fx, investments, storeUp>>
     /\ IF userId \notin DOMAIN users
        THEN /\ UNCHANGED <<wallets, payouts>>
             /\ Unsaved(r, Res(404, "User not found", 0))
        ELSE IF ~users[userId].roi_convert_to_usd
        THEN /\ wallets' = creditAsset(wallets, userId, currency, amount)
             /\ payouts' = createPayout(payouts,
                   [user_id |-> userId, plan_id |-> planId,
                    original_currency |-> currency, original_amount |-> amount,
                    fx_rate_to_usd |-> <<>>, usd_amount |-> <<>>,
                    converted |-> FALSE])
             /\ Saved(r, Res(200, "", amount))
        ELSE \E usdAmount \in SettleUsd(currency, amount) :
               /\ wallets' = creditAsset(wallets, userId, "USD", usdAmount)
               /\ payouts' = createPayout(payouts,
                     [user_id |-> userId, plan_id |-> planId,
                      original_currency |-> currency, original_amount |-> amount,
                      fx_rate_to_usd |-> <<Rate(currency)>>,
                      usd_amount |-> <<usdAmount>>, converted |-> TRUE])
               /\ Saved(r, Res(200, "", usdAmount))

\* POST /settings/roi-conversion
SetRoiConversion(userId, enabled) ==
  LET r == Req("settings/roi-conversion", userId, "", "", 0, 0, enabled)
  IN /\ ServeWallet
     /\ UNCHANGED <<now, wallets, fx, payouts, investments, storeUp>>
     /\ IF userId \notin DOMAIN users
        THEN /\ users' = users
             /\ Unsaved(r, Res(404, "User not found", 0))
        ELSE /\ users' = [users EXCEPT ![userId].roi_convert_to_usd = enabled]
             /\ Saved(r, Res(200, "", 0))

\* The store starts to refuse writes, or accepts them again
StoreFault ==
  /\ storeUp' = ~storeUp
  /\ Handled(Req("store", 0, "", "", 0, 0, ~storeUp), Res(200, "", 0))
  /\ UNCHANGED <<now, users, wallets, fx, payouts, investments, served,
                 foldedAt, disk>>

NextSettle ==
  \/ \E u \in UserIds, pl \in SettlePlans, amt \in SettleAmounts,
        c \in SettleCurrencies :
       Settle(u, pl, amt, c) /\ UNCHANGED <<openedAt, balanceBefore>>
  \/ \E u \in UserIds, b \in BOOLEAN :
       SetRoiConversion(u, b) /\ UNCHANGED <<openedAt, balanceBefore>>
  \/ \E p \in SetRatePairs, r \in SetRateValues :
       SetRate(p, r) /\ UNCHANGED <<openedAt, balanceBefore>>
  \/ StoreFault /\ UNCHANGED <<openedAt, balanceBefore>>

SpecSettle == Init /\ [][NextSettle]_vars

\* ------------------------------------------------------------------------
\* FX auto-refresh (CoinGecko), every 60 minutes and once at start-up
\* ------------------------------------------------------------------------
\* Prices the feed returns for bitcoin and tron, in thousandths of a USD
\* (FeedUnit to the USD); `Number(j?.x?.usd || 0)` is 0 for a missing field
FeedUnit == 1000
BtcFeed == {0, 64000004}
TrxFeed == {-5, 4, 124}

\* round2(price): the possible values, in cents
round2Feed(price) == JSRoundDiv(price, CENT, FeedUnit)

\* `if (price > 0) db.fx[pair] = round2(price)`
FeedUpdates(pair, price) == price > 0

\* Mutant: the refresh writes back the db it read when the fetch began, here
\* the db of the start of the process
Refresh_staleDb(ok, btc, trx) ==
  /\ UNCHANGED <<now, users, wallets, payouts, served, foldedAt, storeUp, fx>>
  /\ investments' = [u \in DOMAIN investments |->
                       [principal_usd |-> MaxPrincipal \div 2,
                        auto_compound |-> TRUE, last_tick_at |-> 0]]
  /\ saveDB
  /\ Handled(Req("fx/refresh", 0, "", "", btc, trx, ok), Res(200, "", 0))

\* updateFxFromCoingecko, from the completion of the fetch on: ok is FALSE
\* when fetch rejects, the status is not 2xx or the body is not JSON.  Every
\* exception, that of saveDB included, is swallowed.
Refresh(ok, btc, trx) ==
  LET r == Req("fx/refresh", 0, "", "", btc, trx, ok)
      keys == DOMAIN fx \cup {"USDT-USD", "USD-USD"}
                \cup (IF FeedUpdates("BTC-USD", btc) THEN {"BTC-USD"} ELSE {})
                \cup (IF FeedUpdates("TRX-USD", trx) THEN {"TRX-USD"} ELSE {})
  IN /\ UNCHANGED <<now, users, wallets, payouts, investments, served,
                    foldedAt, storeUp>>
     /\ IF ~ok
        THEN fx' = fx /\ Unsaved(r, Res(200, "", 0))
        ELSE \E b \in round2Feed(btc), t \in round2Feed(trx) :
               /\ fx' = [p \in keys |->
                           IF p = "BTC-USD" /\ FeedUpdates(p, btc) THEN b
                           ELSE IF p = "TRX-USD" /\ FeedUpdates(p, trx) THEN t
                           ELSE IF p \in {"USDT-USD", "USD-USD"} THEN CENT
                           ELSE fx[p]]
               /\ saveDB
               /\ Handled(r, Res(200, "", 0))

NextRefresh ==
  \/ \E ok \in BOOLEAN, b \in BtcFeed, t \in TrxFeed :
       Refresh(ok, b, t) /\ UNCHANGED <<openedAt, balanceBefore>>
  \/ \E p \in SetRatePairs, r \in SetRateValues :
       SetRate(p, r) /\ UNCHANGED <<openedAt, balanceBefore>>
  \/ \E u \in UserIds, pl \in SettlePlans, amt \in SettleAmounts,
        c \in SettleCurrencies :
       Settle(u, pl, amt, c) /\ UNCHANGED <<openedAt, balanceBefore>>
  \/ \E u \in UserIds, a \in InvestAssets, amt \in InvestAmounts :
       InvestDeposit(u, a, amt) /\ UNCHANGED <<openedAt, balanceBefore>>

SpecRefresh == Init /\ [][NextRefresh]_vars

\* ------------------------------------------------------------------------
\* The event loop: the callbacks of the two timers (sweep, FX refresh) and
\* the request handlers of the investment engine, in any order.  No handler
\* and neither callback yields between its first read and its last write of
\* db (the refresh awaits only before it touches db), so each runs as one
\* step.
\* ------------------------------------------------------------------------
\* the records of one registered user; a feed that answers with both prices
\* or with neither
LoopUsers == {1}
LoopFeed == {<<0, -5>>, <<64000004, 124>>}

\* db.json as an earlier run left it: user 1 holds 1000.00 with auto-compound
\* on, the window open since the start
InitLoop ==
  /\ now = 0
  /\ users = [u \in {1} |-> [roi_convert_to_usd |-> TRUE]]
  /\ wallets = [u \in {1} |-> NewWallet]
  /\ fx = [p \in {"USD-USD", "USDT-USD", "TRX-USD", "BTC-USD"} |->
             CASE p = "TRX-USD" -> 10
               [] p = "BTC-USD" -> 6800000
               [] OTHER -> CENT]
  /\ payouts = <<>>
  /\ investments = [u \in {1} |->
       [principal_usd |-> MaxPrincipal \div 2, auto_compound |-> TRUE,
        last_tick_at |-> 0]]
  /\ req = Req("start", 0, "", "", 0, 0, FALSE)
  /\ res = Res(200, "", 0)
  /\ served = 0
  /\ foldedAt = NullTs
  /\ disk = Persisted
  /\ storeUp = TRUE
  /\ openedAt = [u \in UserIds |-> [at |-> NullTs, alone |-> FALSE]]
  /\ balanceBefore = 0

NextLoop ==
  \/ \E dt \in TickSteps : Tick(dt) /\ UNCHANGED <<openedAt, balanceBefore>>
  \/ \E u \in LoopUsers, a \in InvestAssets, amt \in InvestAmounts :
       InvestDeposit(u, a, amt) /\ UNCHANGED <<openedAt, balanceBefore>>
  \/ \E u \in LoopUsers : Reinvest(u) /\ UNCHANGED <<openedAt, balanceBefore>>
  \/ \E u \in LoopUsers : Claim(u) /\ UNCHANGED <<openedAt, balanceBefore>>
  \/ \E u \in LoopUsers, b \in BOOLEAN :
       Config(u, b) /\ UNCHANGED <<openedAt, balanceBefore>>
  \/ sweepAutoCompound /\ UNCHANGED <<openedAt, balanceBefore>>
  \/ \E ok \in BOOLEAN, f \in LoopFeed :
       Refresh(ok, f[1], f[2]) /\ UNCHANGED <<openedAt, balanceBefore>>

SpecLoop == InitLoop /\ [][NextLoop]_vars

\* ------------------------------------------------------------------------
\* Properties
\* ------------------------------------------------------------------------
\* a balance as a read sees it: a missing wallet or key reads as 0
Bal(w, userId, asset) == IF userId \in DOMAIN w THEN w[userId][asset] ELSE 0
Principal(inv, userId) ==
  IF userId \in DOMAIN inv THEN inv[userId].principal_usd ELSE 0
\* the accrual timer is active: principal > 0 and the window start is set
TimerActive(userId) ==
  /\ userId \in DOMAIN investments
  /\ investments[userId].principal_usd > 0
  /\ investments[userId].last_tick_at # NullTs
\* fiat / stable assets keep 2 decimals, volatile assets 6
Volatile(asset) == asset \notin {"USD", "USDT"}
HasRate(asset) == asset \in {"USD", "USDT"} \/ PairOf(asset) \in DOMAIN fx

\* C1: after any sequence of deposit / withdraw, convert, settle and claim
\* requests the handlers accept, every wallet balance of every user and
\* asset is >= 0.
C1_WalletsNonNegative ==
  \A u \in DOMAIN wallets : \A a \in Assets : wallets[u][a] >= 0

\* C2: in every reachable state an investment record's windowStart
\* (last_tick_at) is null if and only if its principal is <= 0.
C2_TimerInvariant ==
  \A u \in DOMAIN investments :
    (investments[u].last_tick_at = NullTs) <=> (investments[u].principal_usd <= 0)

\* C3: every successful invest deposit adds the USD-equivalent of the amount
\* to principal and sets windowStart to the current instant, so that accrued
\* measured at the deposit instant is 0.
C3_DepositRestartsWindow ==
  [][req'.op = "invest/deposit" /\ res'.status = 200 /\ req'.amount > 0 =>
       LET u == req'.userId
       IN /\ investments'[u].principal_usd - Principal(investments, u)
               \in toUSD(req'.asset, req'.amount)
          /\ investments'[u].last_tick_at = now'
          /\ JSRoundDiv(investments'[u].principal_usd * DAILY_RATE_NUM,
                        now' - investments'[u].last_tick_at,
                        DAY_SEC * DAILY_RATE_DEN) = {0}]_vars

\* C4: a sweep of a record with autoCompound = true, principal P > 0 and
\* elapsed time of N >= 1 whole days plus r < 86400 seconds sets principal to
\* round(P * (1 + dailyRate)^N) and advances windowStart by exactly
\* N * 86400 seconds, so that r is still the elapsed time after the sweep;
\* P = 1000.00 and N = 3 give 1045.68.
C4_SweepCompounds ==
  [][req'.op = "sweep" =>
       \A u \in DOMAIN users \cap DOMAIN investments :
         LET inv == investments[u]
             e == now - inv.last_tick_at
             N == e \div DAY_SEC
         IN (inv.auto_compound /\ inv.principal_usd > 0
               /\ inv.last_tick_at # NullTs /\ N >= 1) =>
              /\ investments'[u].principal_usd
                   \in RoundExact(PowGrow(inv.principal_usd, N))
              /\ investments'[u].last_tick_at = inv.last_tick_at + N * DAY_SEC
              /\ now' - investments'[u].last_tick_at = e % DAY_SEC
              /\ investments'[u].auto_compound
              /\ (inv.principal_usd = 100000 /\ N = 1 =>
                    investments'[u].principal_usd = 101500)
              /\ (inv.principal_usd = 100000 /\ N = 3 =>
                    investments'[u].principal_usd = 104568)]_vars

\* C4 witness: the sweep has folded three whole days into a principal of
\* 1000.00 (Scenario C)
C4_Witness ==
  /\ req.op = "sweep" /\ req.flag
  /\ now = 3 * DAY_SEC
  /\ 1 \in DOMAIN investments
  /\ investments[1].principal_usd = 104568
  /\ investments[1].last_tick_at = 3 * DAY_SEC

\* C5 (as stated): a sweep run at the same instant as, or less than one day
\* after, a sweep that folded a record leaves every investment record
\* unchanged.
C5_SweepIdempotentWithinDay ==
  [][req'.op = "sweep" /\ foldedAt # NullTs /\ now - foldedAt < DAY_SEC =>
       investments' = investments]_vars

\* C5 (amended): a sweep run at the same instant as a sweep that folded a
\* record, or later while less than one day has elapsed since the window
\* start of every record the sweep visits, leaves every investment record
\* unchanged.
C5_SweepIdempotent ==
  [][req'.op = "sweep" /\ foldedAt # NullTs
       /\ \/ now = foldedAt
          \/ \A u \in DOMAIN users \cap DOMAIN investments :
               now - investments[u].last_tick_at < DAY_SEC
       => investments' = investments]_vars

\* C5 witness: a sweep that folded is followed, at the same instant, by a
\* sweep that folded nothing
C5_Witness ==
  /\ req.op = "sweep" /\ ~req.flag
  /\ foldedAt = now
  /\ \E u \in DOMAIN investments :
       investments[u].auto_compound /\ investments[u].principal_usd > 0

\* C6: claim on a record with an active accrual window credits exactly
\* accrued = round(principal * dailyRate * elapsedSeconds / 86400) to the
\* user's USD wallet, leaves principal and the autoCompound flag unchanged,
\* and resets windowStart to now.
C6_ClaimCreditsAccrued ==
  [][req'.op = "invest/claim" =>
       LET u == req'.userId
           credit == Bal(wallets', u, "USD") - Bal(wallets, u, "USD")
       IN TimerActive(u) =>
            /\ res'.status = 200
            /\ credit \in JSRoundDiv(investments[u].principal_usd * DAILY_RATE_NUM,
                                     now - investments[u].last_tick_at,
                                     DAY_SEC * DAILY_RATE_DEN)
            /\ res'.value = credit
            /\ \A v \in UserIds, a \in Assets :
                 (v # u \/ a # "USD") => Bal(wallets', v, a) = Bal(wallets, v, a)
            /\ investments'[u].principal_usd = investments[u].principal_usd
            /\ investments'[u].auto_compound = investments[u].auto_compound
            /\ investments'[u].last_tick_at = now'
            /\ (investments[u].principal_usd = 100000
                  /\ now - investments[u].last_tick_at = DAY_SEC => credit = 1500)
            /\ (investments[u].principal_usd = 100000
                  /\ 2 * (now - investments[u].last_tick_at) = DAY_SEC =>
                  credit = 750)]_vars

\* C6 witness: one day of interest on 1000.00 has been claimed
C6_Witness ==
  /\ req.op = "invest/claim" /\ req.userId = 1
  /\ res.value = 1500
  /\ wallets[1]["USD"] = 1500
  /\ investments[1].principal_usd = 100000
  /\ investments[1].last_tick_at = now

\* C7: reinvest on a record with an active accrual window sets principal to
\* principal + accrued, resets windowStart to now, and changes no wallet
\* balance.
C7_ReinvestFoldsAccrued ==
  [][req'.op = "invest/reinvest" =>
       LET u == req'.userId
       IN TimerActive(u) =>
            /\ res'.status = 200
            /\ investments'[u].principal_usd - investments[u].principal_usd
                 \in JSRoundDiv(investments[u].principal_usd * DAILY_RATE_NUM,
                                now - investments[u].last_tick_at,
                                DAY_SEC * DAILY_RATE_DEN)
            /\ investments'[u].last_tick_at = now'
            /\ investments'[u].auto_compound = investments[u].auto_compound
            /\ \A v \in UserIds, a \in Assets :
                 Bal(wallets', v, a) = Bal(wallets, v, a)
            /\ (investments[u].principal_usd = 100000
                  /\ now - investments[u].last_tick_at = 2 * DAY_SEC =>
                  investments'[u].principal_usd = 103000)]_vars

\* C7 witness: two days of interest on 1000.00 have been reinvested
C7_Witness ==
  /\ req.op = "invest/reinvest" /\ req.userId = 1
  /\ now = 2 * DAY_SEC
  /\ investments[1].principal_usd = 103000
  /\ investments[1].last_tick_at = now

\* C8: reinvest and claim called while the accrual timer is inactive
\* (principal <= 0 or windowStart null) fail with NoActiveAccrual and change
\* neither the investment record nor any wallet balance.
C8_InactiveTimerRejected ==
  [][req'.op \in {"invest/reinvest", "invest/claim"} =>
       (~TimerActive(req'.userId) =>
          /\ res'.status # 200
          /\ res'.error = "NoActiveAccrual"
          /\ investments' = investments
          /\ \A v \in UserIds, a \in Assets :
               Bal(wallets', v, a) = Bal(wallets, v, a))]_vars

\* C9: a successful convert debits amount from fromAsset and credits toAsset
\* with netUsd / rate(toAsset-USD) rounded to the target asset's precision:
\* 2 decimals for fiat / stable assets, 6 decimals for volatile assets;
\* 100 USDT to BTC at 64000 with feePct = 1 credits 0.001547 BTC.
C9_ConvertPrecision ==
  [][req'.op = "exchange/convert" /\ res'.status = 200 =>
       LET u == req'.userId
           from == req'.asset
           to == req'.toAsset
           net == req'.amount * (100 - req'.feePct)
           credited == Bal(wallets', u, to) - Bal(wallets, u, to)
       IN (req'.amount > 0 /\ from # to /\ LocalRate(from) > 0
             /\ LocalRate(to) > 0) =>
            /\ Bal(wallets, u, from) - Bal(wallets', u, from) = req'.amount
            /\ IF Volatile(to)
               THEN credited * 10000
                      \in JSRoundDiv(net, 100 * LocalRate(from), LocalRate(to))
               ELSE credited
                      \in JSRoundDiv(net, LocalRate(from), 100 * LocalRate(to))
            /\ (from = "USDT" /\ to = "BTC" /\ req'.amount = 10000
                  /\ req'.feePct = 1 /\ Rate("BTC") = 6400000 =>
                  credited * 10000 = 1547)]_vars

\* C10: convert fails with MissingFxRate when fromAsset or toAsset is not
\* USD / USDT and has no cached rate, and then no wallet balance is changed.
C10_MissingFxRateRejected ==
  [][req'.op = "exchange/convert"
       /\ req'.amount > 0
       /\ Bal(wallets, req'.userId, req'.asset) >= req'.amount
       /\ (~HasRate(req'.asset) \/ ~HasRate(req'.toAsset)) =>
       /\ res'.status # 200
       /\ res'.error = "MissingFxRate"
       /\ \A v \in UserIds, a \in Assets :
            Bal(wallets', v, a) = Bal(wallets, v, a)]_vars

PayoutCredit(p, u, a) ==
  IF p.user_id # u THEN 0
  ELSE IF p.converted THEN (IF a = "USD" THEN p.usd_amount[1] ELSE 0)
  ELSE (IF a = p.original_currency THEN p.original_amount ELSE 0)

RECURSIVE SumCredits(_, _, _)
SumCredits(ps, u, a) ==
  IF ps = <<>> THEN 0
  ELSE PayoutCredit(Head(ps), u, a) + SumCredits(Tail(ps), u, a)

\* C14: settle is atomic with respect to the payout write: in the state held
\* in memory and in every readable state of db.json, where settlements are
\* the only source of funds, each balance is the sum of the credits its
\* payout records state, so a settlement's credit is there if and only if its
\* payout is (also after a failed write and with a missing FX rate).
C14_SettleAtomic ==
  \A u \in UserIds, a \in Assets :
    /\ Bal(wallets, u, a) = SumCredits(payouts, u, a)
    /\ disk.readable =>
         Bal(disk.db.wallets, u, a) = SumCredits(disk.db.payouts, u, a)

\* C14 witness: the write of a settlement failed; memory holds its credit
\* and its payout, db.json holds neither
C14_Witness ==
  /\ req.op = "settle" /\ req.userId = 1 /\ res.status = 500 /\ ~storeUp
  /\ req.asset = "ETH"
  /\ Len(payouts) = 1 /\ payouts[1].usd_amount = <<0>>
  /\ disk.readable /\ disk.db.payouts = <<>>

\* C15: the payout list is append-only: a settle answered 200 appends exactly
\* one record and keeps the records before it, and every other step (a failed
\* settle, any other operation) leaves the list as it was.
C15_PayoutsAppendOnly ==
  [][IF req'.op = "settle" /\ res'.status = 200
     THEN /\ Len(payouts') = Len(payouts) + 1
          /\ SubSeq(payouts', 1, Len(payouts)) = payouts
     ELSE payouts' = payouts]_vars

\* C16: an invest deposit whose USD-equivalent is zero or negative is
\* rejected and leaves principal and windowStart unchanged.
C16_DepositMustBePositive ==
  [][(req'.op = "invest/deposit"
        /\ \A usd \in toUSD(req'.asset, req'.amount) : usd <= 0) =>
       LET u == req'.userId
       IN /\ res'.status # 200
          /\ Principal(investments', u) = Principal(investments, u)
          /\ u \in DOMAIN investments =>
               investments'[u].last_tick_at = investments[u].last_tick_at]_vars

\* C17: in every reachable state every investment record's principal is
\* >= 0.
C17_PrincipalNonNegative ==
  \A u \in DOMAIN investments : investments[u].principal_usd >= 0

\* C18: accrual is linear within an open window: for a record that received
\* a single deposit of P > 0 at time t0 and since then no deposit, reinvest,
\* claim or fold, status at t0 + t reports accrued =
\* round(P * 0.015 * t / 86400): 15.00 at t = 86400 and 30.00 at t = 172800
\* for P = 1000.
C18_AccrualLinear ==
  [][req'.op = "invest/status" =>
       LET u == req'.userId
           t == now - openedAt[u].at
       IN (openedAt[u].alone /\ res'.value.principal_usd > 0) =>
            /\ res'.value.accrued_usd
                 \in JSRoundDiv(res'.value.principal_usd * DAILY_RATE_NUM, t,
                                DAY_SEC * DAILY_RATE_DEN)
            /\ (res'.value.principal_usd = 100000 /\ t = DAY_SEC =>
                  res'.value.accrued_usd = 1500)
            /\ (res'.value.principal_usd = 100000 /\ t = 2 * DAY_SEC =>
                  res'.value.accrued_usd = 3000)]_vars

\* C19: status for a record whose timer is inactive (principal <= 0 or
\* windowStart null) reports accrued = 0 and a null seconds-to-next; for an
\* active record it reports secondsToNext = 86400 - (elapsedSeconds mod
\* 86400), a value in 1..86400.
C19_StatusCountdown ==
  [][req'.op = "invest/status" =>
       LET v == res'.value
           elapsed == now - v.last_tick_at
       IN IF v.principal_usd <= 0 \/ v.last_tick_at = NullTs
          THEN v.accrued_usd = 0 /\ v.seconds_to_next = <<>>
          ELSE /\ v.seconds_to_next = <<DAY_SEC - (elapsed % DAY_SEC)>>
               /\ v.seconds_to_next[1] \in 1..DAY_SEC]_vars

\* C20: setRate accepts only strictly positive rates: a call with rate <= 0
\* is rejected and leaves the FX table unchanged, and every rate stored in
\* the FX table is > 0.
C20_RatesPositive ==
  /\ \A p \in DOMAIN fx : fx[p] > 0
  /\ (req.op = "fx" /\ req.amount <= 0) => res.status # 200

\* C21: the FX table always holds USD-USD = 1 and USDT-USD = 1: no setRate,
\* with any pair, and no refresh, successful or failed, changes a stored peg,
\* so a settle of USDT with roi_convert_to_usd = true credits the same amount
\* in USD.
C21_PegsFixed ==
  /\ "USD-USD" \in DOMAIN fx /\ fx["USD-USD"] = CENT
  /\ "USDT-USD" \in DOMAIN fx /\ fx["USDT-USD"] = CENT
  /\ (req.op = "settle" /\ res.status = 200 /\ req.flag
        /\ req.asset = "USDT") => res.value = req.amount

\* C22: the FX refresh tolerates failure: when the fetch fails, the response
\* is malformed or the price returned for any covered asset is not positive,
\* the refresh leaves every cached rate as it was and raises no error; no
\* refresh changes wallet, investment or payout state.
C22_RefreshTolerant ==
  [][req'.op = "fx/refresh" =>
       /\ res'.status = 200
       /\ wallets' = wallets /\ investments' = investments
       /\ payouts' = payouts /\ users' = users
       /\ (~req'.flag \/ req'.amount <= 0 \/ req'.feePct <= 0) => fx' = fx]_vars

\* C23: each sweep is a full scan of the investment records: after a sweep
\* no record, whichever operation created it, with autoCompound = true, a
\* non-null windowStart and principal > 0 still has elapsedSeconds >= 86400,
\* and the records with autoCompound = false or less than one day elapsed keep
\* their principal and windowStart.
C23_SweepScansAll ==
  [][req'.op = "sweep" =>
       /\ \A u \in DOMAIN investments' :
            ~(/\ investments'[u].auto_compound
              /\ investments'[u].last_tick_at # NullTs
              /\ investments'[u].principal_usd > 0
              /\ now' - investments'[u].last_tick_at >= DAY_SEC)
       /\ \A u \in DOMAIN investments :
            (\/ ~investments[u].auto_compound
             \/ now - investments[u].last_tick_at < DAY_SEC) =>
              /\ investments'[u].principal_usd = investments[u].principal_usd
              /\ investments'[u].last_tick_at = investments[u].last_tick_at]_vars

\* C24: setAutoCompound is a pure flag toggle: it sets autoCompound to the
\* value asked and leaves the principal and windowStart of the record, every
\* other record, every wallet balance, the FX table and the payout list as
\* they were.
C24_ConfigTogglesFlagOnly ==
  [][req'.op = "invest/config" =>
       LET u == req'.userId
       IN /\ investments'[u].auto_compound = req'.flag
          /\ Principal(investments', u) = Principal(investments, u)
          /\ u \in DOMAIN investments =>
               investments'[u].last_tick_at = investments[u].last_tick_at
          /\ \A v \in DOMAIN investments : v # u => investments'[v] = investments[v]
          /\ DOMAIN investments' = DOMAIN investments \cup {u}
          /\ wallets' = wallets /\ fx' = fx /\ payouts' = payouts
          /\ users' = users /\ now' = now]_vars

\* C24 witness: auto-compound switched on for a record that holds 1000.00
\* and whose window opened earlier
C24_Witness ==
  /\ req.op = "invest/config" /\ req.userId = 1 /\ req.flag
  /\ res.status = 200
  /\ investments[1].auto_compound
  /\ investments[1].principal_usd = 100000
  /\ investments[1].last_tick_at < now

\* The wallet ledger alone: deposits and withdrawals at the precision the
\* ledger is to keep, with the balance each request found
NextLedger ==
  \E u \in UserIds, a \in WalletAssets, amt \in LedgerAmounts :
    /\ Deposit(u, a, amt)
    /\ balanceBefore' = Bal(wallets, u, a)
    /\ UNCHANGED openedAt

SpecLedger == Init /\ [][NextLedger]_vars

\* C25: a successful debit (deposit of -a) followed immediately by a credit
\* (deposit of +a) on the same user and asset returns the balance to its value
\* before the debit, for every balance and amount representable at the
\* asset's precision (2 decimals for USD / USDT, 6 for the others); a debit
\* that would make the balance negative fails and leaves the balance
\* unchanged.
C25_DebitCreditRoundTrip ==
  [][(req'.op = "deposit"
        /\ (Volatile(req'.asset) \/ req'.amount % SubCent = 0)) =>
       LET u == req'.userId
           a == req'.asset
       IN /\ (/\ req.op = "deposit" /\ res.status = 200 /\ req.amount < 0
              /\ req.userId = u /\ req.asset = a
              /\ req'.amount = -req.amount) =>
               /\ res'.status = 200
               /\ Bal(wallets', u, a) = balanceBefore
          /\ (req'.amount < 0
                /\ Bal(wallets, u, a) * SubCent + req'.amount < 0) =>
               /\ res'.status = 400
               /\ res'.error = "Insufficient balance"
               /\ Bal(wallets', u, a) = Bal(wallets, u, a)]_vars

\* C26 (as stated): one sweep that folds N elapsed whole days in a single
\* step leaves exactly the same principal and windowStart as N successive
\* sweeps that each fold one day, the stored principal rounded after each
\* fold: once both records have been folded up to the same day they are
\* equal.
C26_BatchEqualsDaily ==
  (/\ \A u \in UserIds : investments[u].auto_compound
   /\ ~SweepDue) =>
    /\ investments[2].last_tick_at = investments[1].last_tick_at
    /\ investments[2].principal_usd = investments[1].principal_usd

\* C26 (amended): the batch fold leaves the same windowStart as the daily
\* folds, and a principal that differs from theirs by at most D - 1 cents,
\* D the number of days folded: the same principal for one day, not for
\* more.
C26_BatchNearDaily ==
  (/\ \A u \in UserIds : investments[u].auto_compound
   /\ ~SweepDue) =>
    /\ investments[2].last_tick_at = investments[1].last_tick_at
    /\ Abs(investments[2].principal_usd - investments[1].principal_usd)
         <= Max(0, investments[1].last_tick_at \div DAY_SEC - 1)

\* C26 witness: 0.33 folded day by day stays 0.33 (0.33495 rounds down
\* twice); the same 0.33 folded over two days in one step is 0.34
C26_Witness ==
  /\ req.op = "sweep" /\ req.flag
  /\ now = 2 * DAY_SEC
  /\ investments[1].principal_usd = 33 /\ investments[2].principal_usd = 34
  /\ investments[1].last_tick_at = now /\ investments[2].last_tick_at = now

\* C27: if the durable write of a mutating operation fails (the operation is
\* answered 500), its effect is not committed: the reads that follow in the
\* same process see the FX table, wallets, payouts, users and investment
\* records as they were before the operation.
C27_FailedWriteNotCommitted ==
  [][(req'.op \in {"deposit", "exchange/convert", "settle", "invest/deposit",
                   "invest/reinvest", "invest/claim", "invest/config", "fx",
                   "settings/roi-conversion"}
        /\ res'.status = 500) =>
       /\ fx' = fx /\ wallets' = wallets /\ payouts' = payouts
       /\ users' = users /\ investments' = investments]_vars

C29_NoDoubleInterest ==
  [][\A u \in LoopUsers :
       LET inv == investments[u]
           inv1 == investments'[u]
           paid == inv1.last_tick_at - inv.last_tick_at
           interest == JSRoundDiv(inv.principal_usd * DAILY_RATE_NUM, paid,
                                  DAY_SEC * DAILY_RATE_DEN)
           credit == Bal(wallets', u, "USD") - Bal(wallets, u, "USD")
           grown == inv1.principal_usd - inv.principal_usd
       IN /\ 0 <= paid /\ inv1.last_tick_at <= now'
          /\ req'.op = "invest/claim" =>
               /\ inv1.last_tick_at = now
               /\ credit \in interest /\ grown = 0
               /\ inv.last_tick_at = now => credit = 0
               /\ (req.op = "sweep" /\ req.flag) =>
                    paid < DAY_SEC /\ paid = now - inv.last_tick_at
          /\ req'.op = "invest/reinvest" =>
               /\ inv1.last_tick_at = now
               /\ grown \in interest /\ credit = 0
               /\ inv.last_tick_at = now => grown = 0
          /\ req'.op = "sweep" =>
               /\ paid % DAY_SEC = 0 /\ credit = 0
               /\ inv.principal_usd > 0 =>
                    inv1.principal_usd
                      \in RoundExact(PowGrow(inv.principal_usd,
                                             paid \div DAY_SEC))
               /\ (inv.auto_compound /\ inv.principal_usd > 0) =>
                    now - inv1.last_tick_at < DAY_SEC
          /\ req'.op \notin {"invest/claim", "invest/reinvest", "sweep"} =>
               /\ paid = 0 /\ credit = 0
               /\ req'.op # "invest/deposit" => grown = 0]_vars

\* C29 witness: a full day of interest on 1000.00 was claimed (15.00) and a
\* second claim at the same instant credited 0
C29_Witness ==
  /\ req.op = "invest/claim" /\ res.status = 200 /\ res.value = 0
  /\ now = DAY_SEC
  /\ served = 2
  /\ investments[1].principal_usd = 100000
  /\ investments[1].last_tick_at = now
  /\ wallets[1]["USD"] = 1500

\* C30: an investment record's windowStart is never later than the current
\* time and never moves backwards: deposit, config and status leave it,
\* reinvest and claim set it to now, the sweep advances it by
\* days * 86400 <= elapsedSeconds; elapsedSeconds is >= 0 in every reachable
\* state.
C30_WindowStartNotAhead ==
  [][\A u \in DOMAIN investments' :
       /\ investments'[u].last_tick_at <= now'
       /\ now' - investments'[u].last_tick_at >= 0
       /\ u \in DOMAIN investments =>
            /\ investments'[u].last_tick_at >= investments[u].last_tick_at
            /\ investments[u].last_tick_at <= now
            /\ req'.op \in {"invest/deposit", "invest/config", "tick"} =>
                 investments'[u].last_tick_at = investments[u].last_tick_at
            /\ (req'.op \in {"invest/reinvest", "invest/claim"}
                  /\ req'.userId = u) => investments'[u].last_tick_at = now
            /\ req'.op = "sweep" =>
                 LET adv == investments'[u].last_tick_at
                              - investments[u].last_tick_at
                 IN /\ adv % DAY_SEC = 0
                    /\ adv <= now - investments[u].last_tick_at]_vars

\* C30 witness: a sweep a day and a half after the window opened has advanced
\* windowStart by one day, half a day behind the current time
C30_Witness ==
  /\ req.op = "sweep" /\ req.flag
  /\ 2 * now = 3 * DAY_SEC
  /\ \E u \in DOMAIN investments :
       /\ investments[u].last_tick_at = DAY_SEC
       /\ investments[u].principal_usd = 101500

====
